---- MODULE Spec2Model ----
(***************************************************************************)
(* Model of plone.restapi's vocabulary serializer                          *)
(* (src/plone/restapi/serializer/vocabularies.py):                         *)
(* SerializeVocabLikeToJson.__call__, filter_tree_vocab,                   *)
(* serialize_tree_vocab and SerializeTermToJson.__call__.                  *)
(*                                                                         *)
(* Text is a sequence of one-character strings, so that str.lower() and    *)
(* the substring test `in` are computed rather than assumed.               *)
(* A tree vocabulary (OrderedDict term -> OrderedDict) is a sequence of    *)
(* records [term, sub] in insertion order.                                 *)
(***************************************************************************)
EXTENDS Integers, Sequences, FiniteSets, TLC

VARIABLES
    vocabulary,  \* self.context: [tree, items], flat or ITreeVocabulary
    form,        \* self.request.form: title, token, tokens, b_size, b_start
    pc,          \* "request" before __call__, "done" after it returned
    status,      \* self.request.response status
    terms,       \* the local `terms` of __call__ after filtering
    result,      \* the dict __call__ returned
    inspected    \* number of terms the filter loops visited

vars == <<vocabulary, form, pc, status, terms, result, inspected>>

(* Largest number of terms in a vocabulary of the model. *)
MaxNodes == 3

----------------------------------------------------------------------------
(* Text helpers: str.lower(), `needle in hay`.                             *)

LowerChar(c) == IF c = "A" THEN "a" ELSE IF c = "B" THEN "b" ELSE c

lower(s) == [i \in 1..Len(s) |-> LowerChar(s[i])]

contains(needle, hay) ==
    \E i \in 0..(Len(hay) - Len(needle)) :
        SubSeq(hay, i + 1, i + Len(needle)) = needle

(* Python's None, as the value of SimpleTerm.title of an untitled term.    *)
None == <<"None">>

(* zope.i18n.translate with the request as context: a message catalog that *)
(* localizes the message "ba" as "B" and leaves every other text alone.    *)
translate(text) == IF text = <<"b", "a">> THEN <<"B">> ELSE text

----------------------------------------------------------------------------
(* Terms and vocabularies.                                                 *)

(* SimpleTerm provides ITitledTokenizedTerm exactly when title is not None *)
ITitledTokenizedTerm(term) == term.title # None

TermPool ==
    { [token |-> <<"a">>,      title |-> <<"A", "b">>],
      [token |-> <<"A", "b">>, title |-> None],
      [token |-> <<"b">>,      title |-> <<"b", "a">>],
      [token |-> <<"B">>,      title |-> <<>>] }

(* All orderings of the terms of T: what iterating a flat vocabulary       *)
(* with exactly these terms can yield.                                     *)
RECURSIVE Orderings(_)
Orderings(T) ==
    IF T = {} THEN { <<>> }
    ELSE UNION { { <<t>> \o s : s \in Orderings(T \ {t}) } : t \in T }

(* All ordered forests whose nodes are exactly the terms of T, each once   *)
(* (TreeVocabulary keeps terms unique over the whole tree).                *)
RECURSIVE Forests(_)
Forests(T) ==
    IF T = {} THEN { <<>> }
    ELSE UNION { UNION { { <<[term |-> r, sub |-> s]>> \o f :
                               s \in Forests(A), f \in Forests((T \ {r}) \ A) }
                         : A \in SUBSET (T \ {r}) }
                 : r \in T }

TermSets == { T \in SUBSET TermPool : Cardinality(T) <= MaxNodes }

Vocabularies ==
    UNION { { [tree |-> FALSE, items |-> s] : s \in Orderings(T) }
            \cup { [tree |-> TRUE, items |-> f] : f \in Forests(T) }
            : T \in TermSets }

----------------------------------------------------------------------------
(* The request form. `tokens` is a str or a list of str; b_size "" stands  *)
(* for an absent parameter (form.get("b_size", "")).                       *)

Str(text) == [str |-> TRUE, val |-> text]
List(seq) == [str |-> FALSE, val |-> seq]

Titles == { <<>>, <<"a">>, <<"B">> }
Tokens == { <<>>, <<"a", "B">>, <<"b">> }
TokensParams ==
    { List(<<>>), Str(<<>>), Str(<<"B">>),
      List(<< <<"a">>, <<"A">> >>), List(<< <<"A", "b">>, <<"b">> >>) }
BSizes == { "", "-1", "1", "2" }
BStarts == { 0, 1 }

Forms ==
    [title : Titles, token : Tokens, tokens : TokensParams,
     b_size : BSizes, b_start : BStarts]

(* Python truthiness of the tokens parameter: "" and [] are falsy.         *)
Truthy(tokens) == tokens.val # <<>>

vocabulary_id == "http://nohost/plone/@vocabularies/v"

----------------------------------------------------------------------------
(* SerializeTermToJson.__call__                                            *)

SerializeTermToJson(term) ==
    LET token == term.token
        title == IF ITitledTokenizedTerm(term) THEN term.title ELSE token
    IN  [token |-> token, title |-> translate(title)]

----------------------------------------------------------------------------
(* plone.restapi.batching.HypermediaBatch, as far as __call__ uses it:     *)
(* a page slice of the sequence, the total, the canonical URL and links.   *)

DEFAULT_BATCH_SIZE == 25

Min(a, b) == IF a < b THEN a ELSE b

BatchSize(f) ==
    IF f.b_size = "" THEN DEFAULT_BATCH_SIZE
    ELSE IF f.b_size = "1" THEN 1
    ELSE IF f.b_size = "2" THEN 2
    ELSE 0 - 1

HypermediaBatch(f, sequence) ==
    LET b_size  == BatchSize(f)
        b_start == f.b_start
        total   == Len(sequence)
        url     == [url    |-> vocabulary_id,
                    title  |-> f.title, token |-> f.token,
                    tokens |-> f.tokens]
        nav == ("@id" :> [url |-> url, b_start |-> b_start])
               @@ ("first" :> [url |-> url, b_start |-> 0])
               @@ ("last" :> [url |-> url,
                              b_start |-> ((total - 1) \div b_size) * b_size])
               @@ (IF b_start + b_size < total
                   THEN "next" :> [url |-> url, b_start |-> b_start + b_size]
                   ELSE <<>>)
               @@ (IF b_start > 0
                   THEN "prev" :> [url |-> url,
                                   b_start |-> IF b_start > b_size
                                               THEN b_start - b_size ELSE 0]
                   ELSE <<>>)
    IN  [items         |-> SubSeq(sequence, b_start + 1,
                                  Min(b_start + b_size, total)),
         items_total   |-> total,
         canonical_url |-> url,
         links         |-> IF total <= b_size THEN <<>> ELSE nav]

----------------------------------------------------------------------------
(* __call__: request validation                                            *)

(* The check written against tokens instead of token.                      *)
InvalidParameters_tokens(f) == f.title # <<>> /\ Truthy(f.tokens)

(* `if title and token:`                                                   *)
InvalidParameters(f) == f.title # <<>> /\ f.token # <<>>

(* `if b_size == "-1":`                                                    *)
NoBatching(f) == f.b_size = "-1"

error_body ==
    "error" :> [type    |-> "Invalid parameters",
                message |-> "You can not filter by title and token at the same time."]

----------------------------------------------------------------------------
(* __call__: the flat filter loop                                          *)

(* `safe_text(getattr(term, "title", None) or "")`                         *)
term_title(term) == IF term.title = None THEN <<>> ELSE term.title

(* The inner `for item in tokens:` loop: one append per matching entry.    *)
RECURSIVE tokens_appends(_, _)
tokens_appends(tokens, term) ==
    IF tokens = <<>> THEN <<>>
    ELSE (IF lower(Head(tokens)) # lower(term.token) THEN <<>> ELSE <<term>>)
         \o tokens_appends(Tail(tokens), term)

(* What one iteration of `for term in vocabulary:` appends to terms.       *)
flat_appends(term, title, token, tokens) ==
    IF token # <<>>
    THEN IF lower(token) # lower(term.token) THEN <<>> ELSE <<term>>
    ELSE IF Truthy(tokens)
    THEN tokens_appends(IF tokens.str THEN <<tokens.val>> ELSE tokens.val, term)
    ELSE IF ~ contains(lower(title), lower(translate(term_title(term))))
         THEN <<>> ELSE <<term>>

RECURSIVE flat_filter(_, _, _, _)
flat_filter(voc, title, token, tokens) ==
    IF voc = <<>> THEN <<>>
    ELSE flat_appends(Head(voc), title, token, tokens)
         \o flat_filter(Tail(voc), title, token, tokens)

----------------------------------------------------------------------------
(* filter_tree_vocab                                                       *)

(* `if isinstance(tokens, str): tokens = [tokens]`                         *)
tokens_list(tokens) == IF tokens.str THEN <<tokens.val>> ELSE tokens.val

(* The value of `use` before the children are looked at; tokens is a list. *)
self_use(term, title, token, tokens) ==
    IF token # <<>>
    THEN lower(token) = lower(term.token)
    ELSE IF tokens # <<>>
    THEN \E i \in 1..Len(tokens) : lower(tokens[i]) = lower(term.token)
    ELSE contains(lower(title), lower(translate(term_title(term))))

(* A term is kept on its own match only; matching children are ignored.    *)
keep_self_only(use, inner) == use

(* `if len(inner) > 0: use = True` followed by `if use:`                   *)
keep(use, inner) == use \/ Len(inner) > 0

RECURSIVE filter_items(_, _, _, _)
filter_items(outer, title, token, tokens) ==
    IF outer = <<>> THEN <<>>
    ELSE LET term  == Head(outer).term
             inner == filter_items(Head(outer).sub, title, token, tokens)
             use   == self_use(term, title, token, tokens)
         IN  (IF keep(use, inner)
              THEN << [term |-> term, sub |-> inner] >> ELSE <<>>)
             \o filter_items(Tail(outer), title, token, tokens)

filter_tree_vocab(outer, title, token, tokens) ==
    filter_items(outer, title, token, tokens_list(tokens))

----------------------------------------------------------------------------
(* serialize_tree_vocab                                                    *)

(* The items field is attached to every record, also to a leaf's.          *)
with_items_always(rec, sub_terms, serialized) == rec @@ ("items" :> serialized)

(* `if len(sub_terms) > 0: result['items'] = ...`                          *)
with_items(rec, sub_terms, serialized) ==
    IF Len(sub_terms) > 0 THEN rec @@ ("items" :> serialized) ELSE rec

RECURSIVE serialize_tree_vocab(_)
serialize_tree_vocab(tree) ==
    [i \in 1..Len(tree) |->
        with_items(SerializeTermToJson(tree[i].term), tree[i].sub,
                   serialize_tree_vocab(tree[i].sub))]

----------------------------------------------------------------------------
(* __call__                                                                *)

RECURSIVE NodeCount(_)
NodeCount(tree) ==
    IF tree = <<>> THEN 0
    ELSE 1 + NodeCount(Head(tree).sub) + NodeCount(Tail(tree))

(* The batching key is attached whatever the links are.                    *)
with_batching_always(res, links) == res @@ ("batching" :> links)

(* `if links: result["batching"] = links`                                  *)
with_batching(res, links) ==
    IF links # <<>> THEN res @@ ("batching" :> links) ELSE res

batched_result(batch, serialized_terms) ==
    with_batching(("@id" :> batch.canonical_url)
                  @@ ("items" :> serialized_terms)
                  @@ ("items_total" :> batch.items_total),
                  batch.links)

(* The batch is built over the unfiltered vocabulary.items().              *)
tree_call_unfiltered_batch(voc, f) ==
    LET filtered == filter_tree_vocab(voc.items, f.title, f.token, f.tokens)
        batch    == HypermediaBatch(f, voc.items)
    IN  [status |-> 200, terms |-> filtered, inspected |-> NodeCount(voc.items),
         body |-> IF NoBatching(f)
                  THEN ("@id" :> vocabulary_id)
                       @@ ("items" :> serialize_tree_vocab(filtered))
                  ELSE batched_result(batch, serialize_tree_vocab(batch.items))]

tree_call(voc, f) ==
    LET filtered == filter_tree_vocab(voc.items, f.title, f.token, f.tokens)
        batch    == HypermediaBatch(f, filtered)
    IN  [status |-> 200, terms |-> filtered, inspected |-> NodeCount(voc.items),
         body |-> IF NoBatching(f)
                  THEN ("@id" :> vocabulary_id)
                       @@ ("items" :> serialize_tree_vocab(filtered))
                  ELSE batched_result(batch, serialize_tree_vocab(batch.items))]

flat_call(voc, f) ==
    LET filtered == flat_filter(voc.items, f.title, f.token, f.tokens)
        batch    == HypermediaBatch(f, filtered)
        ser(seq) == [i \in 1..Len(seq) |-> SerializeTermToJson(seq[i])]
    IN  [status |-> 200, terms |-> filtered, inspected |-> Len(voc.items),
         body |-> IF NoBatching(f)
                  THEN ("@id" :> vocabulary_id) @@ ("items" :> ser(filtered))
                  ELSE batched_result(batch, ser(batch.items))]

call(voc, f) ==
    IF InvalidParameters(f)
    THEN [status |-> 400, terms |-> <<>>, inspected |-> 0, body |-> error_body]
    ELSE IF voc.tree THEN tree_call(voc, f) ELSE flat_call(voc, f)

----------------------------------------------------------------------------
(* The state machine: a request arrives for a vocabulary, the serializer   *)
(* is called once and the response is complete.                            *)

Init ==
    /\ vocabulary \in Vocabularies
    /\ form \in Forms
    /\ pc = "request"
    /\ status = 200
    /\ terms = <<>>
    /\ result = <<>>
    /\ inspected = 0

Call ==
    /\ pc = "request"
    /\ LET r == call(vocabulary, form)
       IN  /\ status' = r.status
           /\ terms' = r.terms
           /\ result' = r.body
           /\ inspected' = r.inspected
    /\ pc' = "done"
    /\ UNCHANGED <<vocabulary, form>>

Next == Call

Spec == Init /\ [][Next]_vars

----------------------------------------------------------------------------
(* Vocabulary of the properties                                            *)

Done == pc = "done"
Valid == Done /\ status = 200
IsTree == vocabulary.tree
IsFlat == ~ vocabulary.tree

Range(seq) == { seq[i] : i \in 1..Len(seq) }

Last(seq) == seq[Len(seq)]

IsPrefix(p, q) == Len(p) <= Len(q) /\ SubSeq(q, 1, Len(p)) = p

(* The root-to-node paths of a tree, each a sequence of terms.             *)
RECURSIVE PathsOf(_)
PathsOf(tree) ==
    UNION { { <<tree[i].term>> }
            \cup { <<tree[i].term>> \o p : p \in PathsOf(tree[i].sub) }
            : i \in 1..Len(tree) }

(* The terms of a tree in depth-first document order.                      *)
RECURSIVE Preorder(_)
Preorder(tree) ==
    IF tree = <<>> THEN <<>>
    ELSE <<Head(tree).term>> \o Preorder(Head(tree).sub) \o Preorder(Tail(tree))

(* The nodes of a tree, at any depth.                                      *)
RECURSIVE NodesOf(_)
NodesOf(tree) ==
    UNION { { tree[i] } \cup NodesOf(tree[i].sub) : i \in 1..Len(tree) }

(* The {token, title} records of a serialized tree, in document order.     *)
RECURSIVE RecordsOf(_)
RecordsOf(list) ==
    IF list = <<>> THEN <<>>
    ELSE LET rec == Head(list)
         IN  << [token |-> rec.token, title |-> rec.title] >>
             \o (IF "items" \in DOMAIN rec THEN RecordsOf(rec.items) ELSE <<>>)
             \o RecordsOf(Tail(list))

(* The term matches the request's query by the test filter_tree_vocab      *)
(* applies to the term itself.                                             *)
SelfMatches(term) ==
    self_use(term, form.title, form.token, tokens_list(form.tokens))

----------------------------------------------------------------------------
(* C1: a request with both title and token non-empty is answered with      *)
(* status 400 and a body that holds only the "Invalid parameters" error,   *)
(* for flat and tree vocabularies alike, without any term having been      *)
(* inspected and without items, items_total or batching.                   *)
C1_ConflictRejected ==
    (Done /\ form.title # <<>> /\ form.token # <<>>)
        => /\ status = 400
           /\ DOMAIN result = {"error"}
           /\ result["error"].type = "Invalid parameters"
           /\ inspected = 0
           /\ terms = <<>>

C1_Witness ==
    /\ Done /\ form.title # <<>> /\ form.token # <<>>
    /\ IsTree /\ Len(vocabulary.items) > 0
    /\ Truthy(form.tokens) /\ form.b_size = "-1"
    /\ status = 400

----------------------------------------------------------------------------
(* C2: a term is in the result of filter_tree_vocab, at its original       *)
(* position, iff it matches itself or one of its descendants does; the     *)
(* kept terms keep their document order.                                   *)
KeptPaths ==
    { p \in PathsOf(vocabulary.items) :
        \E q \in PathsOf(vocabulary.items) :
            IsPrefix(p, q) /\ SelfMatches(Last(q)) }

C2_TreeKeepsMatchesAndAncestors ==
    (Valid /\ IsTree)
        => /\ PathsOf(terms) = KeptPaths
           /\ LET kept(t) == \E p \in KeptPaths : Last(p) = t
              IN  Preorder(terms) = SelectSeq(Preorder(vocabulary.items), kept)

(* A nested match below an ancestor that does not match, next to a branch  *)
(* that is dropped.                                                        *)
C2_Witness ==
    /\ Valid /\ IsTree
    /\ \E p \in PathsOf(terms) :
          Len(p) >= 2 /\ SelfMatches(Last(p)) /\ ~ SelfMatches(p[1])
    /\ Len(terms) < Len(vocabulary.items)

----------------------------------------------------------------------------
(* C3: flat vocabulary, token empty, tokens non-empty: the filtered terms  *)
(* are the subsequence of the vocabulary whose token equals some entry of  *)
(* tokens ignoring case, each exactly once, in original order.             *)
C3_FlatTokensSubsequence ==
    (Valid /\ IsFlat /\ form.token = <<>> /\ Truthy(form.tokens))
        => LET entries == tokens_list(form.tokens)
               hit(t) == \E i \in 1..Len(entries) :
                            lower(entries[i]) = lower(t.token)
           IN  terms = SelectSeq(vocabulary.items, hit)

----------------------------------------------------------------------------
(* C4: filtering is idempotent: filtering the filtered terms again with    *)
(* the same query gives the same terms, flat and tree.                     *)
C4_FilterIdempotent ==
    Valid
        => IF IsTree
           THEN filter_tree_vocab(terms, form.title, form.token, form.tokens)
                    = terms
           ELSE flat_filter(terms, form.title, form.token, form.tokens)
                    = terms

----------------------------------------------------------------------------
(* C5: with only the title filter active, a term without a title is        *)
(* matched on its token: it is included iff the lower-cased query title    *)
(* is a substring of its lower-cased translated token, which is the title  *)
(* the term serializer emits.                                              *)
C5_UntitledMatchedOnToken ==
    (Valid /\ form.token = <<>> /\ ~ Truthy(form.tokens))
        => LET titleOf(t) == SerializeTermToJson(t).title
               hit(t) == contains(lower(form.title), lower(titleOf(t)))
           IN  IF IsTree
               THEN \A n \in NodesOf(vocabulary.items) :
                       (n.sub = <<>> /\ ~ ITitledTokenizedTerm(n.term))
                           => (n.term \in Range(Preorder(terms)) <=> hit(n.term))
               ELSE \A t \in Range(vocabulary.items) :
                       ~ ITitledTokenizedTerm(t)
                           => (t \in Range(terms) <=> hit(t))

----------------------------------------------------------------------------
(* C6: precedence token > tokens > title, never combined, case ignored,    *)
(* for the flat and the tree filter: a term (a leaf, in a tree) is         *)
(* included iff the first non-empty filter accepts it.                     *)
PrecedenceMatch(t) ==
    IF form.token # <<>>
    THEN lower(form.token) = lower(t.token)
    ELSE IF Truthy(form.tokens)
    THEN \E i \in 1..Len(tokens_list(form.tokens)) :
            lower(tokens_list(form.tokens)[i]) = lower(t.token)
    ELSE contains(lower(form.title), lower(translate(term_title(t))))

C6_FixedPrecedence ==
    Valid
        => IF IsTree
           THEN \A n \in NodesOf(vocabulary.items) :
                   n.sub = <<>>
                       => (n.term \in Range(Preorder(terms))
                              <=> PrecedenceMatch(n.term))
           ELSE \A t \in Range(vocabulary.items) :
                   t \in Range(terms) <=> PrecedenceMatch(t)

----------------------------------------------------------------------------
(* C7: with title, token and tokens all empty the filter is the identity,  *)
(* flat and tree.                                                          *)
C7_EmptyQueryIdentity ==
    (Valid /\ form.title = <<>> /\ form.token = <<>> /\ ~ Truthy(form.tokens))
        => terms = vocabulary.items

----------------------------------------------------------------------------
(* C8: with b_size "-1" the body has exactly @id (the vocabulary id) and   *)
(* items, one per filtered term; otherwise it has items_total, its @id is  *)
(* the batch's canonical URL, and batching is there iff the batch has      *)
(* links.                                                                  *)
C8_EnvelopeKeys ==
    Valid
        => LET batch == HypermediaBatch(form, terms)
           IN  IF form.b_size = "-1"
               THEN /\ DOMAIN result = {"@id", "items"}
                    /\ result["@id"] = vocabulary_id
                    /\ Len(result["items"]) = Len(terms)
                    /\ \A i \in 1..Len(terms) :
                          result["items"][i].token
                              = (IF IsTree THEN terms[i].term
                                           ELSE terms[i]).token
               ELSE /\ {"@id", "items", "items_total"} \subseteq DOMAIN result
                    /\ DOMAIN result \subseteq
                           {"@id", "items", "items_total", "batching"}
                    /\ result["@id"] = batch.canonical_url
                    /\ ("batching" \in DOMAIN result) <=> (batch.links # <<>>)

C8_WitnessUnbatched ==
    /\ Valid /\ form.b_size = "-1" /\ Len(terms) >= 2
    /\ DOMAIN result = {"@id", "items"}

C8_Witness ==
    /\ Valid /\ form.b_size = "1" /\ Len(terms) >= 2
    /\ "batching" \in DOMAIN result

C8_WitnessNoLinks ==
    /\ Valid /\ form.b_size = "2" /\ Len(terms) = 2
    /\ "items_total" \in DOMAIN result /\ "batching" \notin DOMAIN result

----------------------------------------------------------------------------
(* C9: a paginated tree result pages the top level of the filtered tree:   *)
(* items_total is the number of its top-level terms, the items are a       *)
(* contiguous run of them in order, each with its whole filtered subtree.  *)
C9_TreePagesTopLevel ==
    (Valid /\ IsTree /\ form.b_size # "-1")
        => /\ result["items_total"] = Len(terms)
           /\ \E lo \in 1..(Len(terms) + 1) : \E hi \in 0..Len(terms) :
                 /\ Len(result["items"]) = IF hi < lo THEN 0 ELSE hi - lo + 1
                 /\ \A k \in 1..Len(result["items"]) :
                       LET node == terms[lo + k - 1]
                           rec  == result["items"][k]
                       IN  /\ rec.token = node.term.token
                           /\ ("items" \in DOMAIN rec) <=> (node.sub # <<>>)
                           /\ node.sub # <<>>
                                 => RecordsOf(rec.items)
                                      = [j \in 1..Len(Preorder(node.sub)) |->
                                           SerializeTermToJson(
                                               Preorder(node.sub)[j])]

(* A page shorter than the filtered top level, holding a term with         *)
(* descendants, while the tree has more nodes than top-level terms.        *)
C9_Witness ==
    /\ Valid /\ IsTree /\ form.b_size = "1"
    /\ Len(terms) >= 2 /\ Len(result["items"]) = 1
    /\ "items" \in DOMAIN result["items"][1]
    /\ result["items_total"] < NodeCount(terms)

----------------------------------------------------------------------------
(* C10: serialize_tree_vocab gives a nested list of the shape of the       *)
(* filtered tree: per level one record per term in order, the record is    *)
(* the term serializer's output, and it has an items field iff the term    *)
(* has filtered children, holding their serialization; a leaf has none.    *)
RECURSIVE SameShape(_, _)
SameShape(list, tree) ==
    /\ Len(list) = Len(tree)
    /\ \A i \in 1..Len(tree) :
          LET rec == list[i]
              out == SerializeTermToJson(tree[i].term)
          IN  /\ rec.token = out.token
              /\ rec.title = out.title
              /\ IF tree[i].sub = <<>>
                 THEN DOMAIN rec = {"token", "title"}
                 ELSE /\ DOMAIN rec = {"token", "title", "items"}
                      /\ rec.items # <<>>
                      /\ SameShape(rec.items, tree[i].sub)

C10_SerializedTreeShape ==
    (Valid /\ IsTree /\ form.b_size = "-1")
        => SameShape(result["items"], terms)

(* A serialized tree three levels deep next to a leaf record.              *)
C10_Witness ==
    /\ Valid /\ IsTree /\ form.b_size = "-1"
    /\ \E p \in PathsOf(terms) : Len(p) = 3
    /\ \E i \in 1..Len(result["items"]) :
          /\ "items" \in DOMAIN result["items"][i]
          /\ "items" \in DOMAIN result["items"][i].items[1]

C10_WitnessLeaf ==
    /\ Valid /\ IsTree /\ form.b_size = "-1"
    /\ Len(terms) = 2
    /\ DOMAIN result["items"][1] = {"token", "title", "items"}
    /\ DOMAIN result["items"][2] = {"token", "title"}

====
